---- MODULE Spec2Model ----
(***************************************************************************)
(* A model of queries.py: the six paginated SPARQL retrievals, the sample  *)
(* aggregator built on one of them, and the statistics computed over the   *)
(* aggregator's Sample Map.                                                *)
(*                                                                         *)
(* Two specifications:                                                     *)
(*   Spec       one call of a retrieval operation against an endpoint that *)
(*              holds a fixed sequence of rows per search term and serves  *)
(*              LIMIT/OFFSET slices of it, or fails;                       *)
(*   SpecStats  the pure table functions applied to a Sample Map drawn     *)
(*              from a bounded set.                                        *)
(***************************************************************************)
EXTENDS Integers, Sequences, FiniteSets, TLC

VARIABLES
    op,               \* the retrieval operation being executed
    compounds,        \* argument of retrieve_samples_and_labels_for_compound
    store,            \* the endpoint's data: search term -> sequence of rows
    mode,             \* how the endpoint treats OFFSET: "slice" or "ignore"
    pc,               \* position of the call
    it,               \* numpy.nditer position in compounds (1-based)
    compound,         \* loop variable `compound` of the aggregator
    offset,           \* local `offset`
    names,            \* local `names` of retrieve_compound_labels
    samples,          \* local `samples` of the retrieve_samples_by_* functions
    results_dict,     \* local `results_dict` of the aggregator
    requests,         \* every query sent to the endpoint, in order
    returned,         \* TRUE once the call has returned a value
    result,           \* the value returned
    error,            \* the exception raised in the call, "none" if none was
    samplesandlabels, \* argument of the statistics functions
    call,             \* the statistics function applied
    table,            \* the value a statistics function returned, <<>> for None
    retNone,          \* TRUE when the function applied returned None
    header,           \* argument `header` of write2table
    data,             \* argument `data` of write2table
    file              \* the characters of the file `filename`

vars == <<op, compounds, store, mode, pc, it, compound, offset, names, samples,
          results_dict, requests, returned, result, error,
          samplesandlabels, call, table, retNone, header, data, file>>

fetchVars == <<op, compounds, store, mode, pc, it, compound, offset, names, samples,
               results_dict, requests, returned, result, error>>

statVars == <<samplesandlabels, call, table, retNone>>

exportVars == <<header, data, file>>

----------------------------------------------------------------------------
(* Bounds of the model. *)

\* largest number of rows the endpoint holds for one search term
MaxRows == 101

\* longest argument array of the aggregator
MaxCompounds == 2

\* longest list of one name in a Sample Map given to the statistics
MaxLen == 2

\* most queries followed against an endpoint that ignores OFFSET
MaxRequests == 5

----------------------------------------------------------------------------
(* Program constants. *)

limit == 50

step == 50

----------------------------------------------------------------------------
(* Generic helpers. *)

Min(a, b) == IF a <= b THEN a ELSE b

Range(s) == {s[i] : i \in DOMAIN s}

\* integer ceiling of a / b, b > 0
CeilDiv(a, b) == (a + b - 1) \div b

\* all sequences over S of length 0..n
SeqsUpTo(S, n) == UNION {[1..k -> S] : k \in 0..n}

----------------------------------------------------------------------------
(* Python's insertion-ordered dict: the keys in insertion order and the    *)
(* value of each key.  d[k] = v keeps the position of a key already there. *)

EmptyDict == [keys |-> <<>>, val |-> <<>>]

DictPut(d, k, v) ==
    IF k \in Range(d.keys)
    THEN [d EXCEPT !.val = [x \in DOMAIN d.val |-> IF x = k THEN v ELSE d.val[x]]]
    ELSE [keys |-> Append(d.keys, k),
          val  |-> [x \in (DOMAIN d.val) \cup {k} |-> IF x = k THEN v ELSE d.val[x]]]

DictGet(d, k) == d.val[k]

----------------------------------------------------------------------------
(* Python's None as the header of write2table.                             *)

NoHeader == [none |-> TRUE, row |-> <<>>]

SomeHeader(r) == [none |-> FALSE, row |-> r]

----------------------------------------------------------------------------
(* Strings whose case matters are sequences of character codes.            *)

\* str.lower on one character: 'A'..'Z' (65..90) map to 'a'..'z' (97..122)
LowerChar(c) == IF c >= 65 /\ c <= 90 THEN c + 32 ELSE c

\* numpy.char.lower on one element
Lower(str) == [i \in DOMAIN str |-> LowerChar(str[i])]

\* lexicographic order of strings, as numpy.unique sorts them
StrLess(a, b) ==
    \E i \in 1..(Min(Len(a), Len(b)) + 1) :
        /\ \A j \in 1..(i - 1) : a[j] = b[j]
        /\ \/ i = Len(a) + 1 /\ i <= Len(b)
           \/ i <= Len(a) /\ i <= Len(b) /\ a[i] < b[i]

RECURSIVE SortedSeq(_)
SortedSeq(S) ==
    IF S = {} THEN <<>>
    ELSE LET m == CHOOSE x \in S : \A y \in S \ {x} : StrLess(x, y)
         IN  <<m>> \o SortedSeq(S \ {m})

\* mutant: the names are deduplicated without being lowercased
UniqueLower_NoLower(ns) == SortedSeq(Range(ns))

\* numpy.unique(numpy.char.lower(numpy.array(names))) for a non-empty list
UniqueLower(ns) == SortedSeq({Lower(ns[i]) : i \in DOMAIN ns})

----------------------------------------------------------------------------
(* The six retrieval operations and their queries.                         *)

Ops == {"retrieve_compound_labels",
        "retrieve_samples_and_labels_for_compound",
        "retrieve_samples_by_chebiid",
        "retrieve_samples_by_chebiid_and_molar",
        "retrieve_samples_by_chebiid_and_celline",
        "retrieve_samples_by_chebiid_and_strain"}

Aggregator == "retrieve_samples_and_labels_for_compound"

Resolver == "retrieve_compound_labels"

\* the operations that accumulate into `samples` and return it
SampleOps == Ops \ {Aggregator, Resolver}

\* the variables of the SELECT clause of each query
SelectVars(o) ==
    CASE o = "retrieve_compound_labels"                 -> {"compound"}
      [] o = "retrieve_samples_and_labels_for_compound" -> {"sample", "lab"}
      [] o = "retrieve_samples_by_chebiid"              -> {"sample", "attribute"}
      [] o = "retrieve_samples_by_chebiid_and_molar"    -> {"sample", "compound"}
      [] o = "retrieve_samples_by_chebiid_and_celline"  -> {"sample", "cellline"}
      [] o = "retrieve_samples_by_chebiid_and_strain"   -> {"sample", "cellline"}

\* the variables the WHERE pattern of each query binds
WhereVars(o) ==
    CASE o = "retrieve_compound_labels"                 -> {"molecule", "sid", "compound"}
      [] o = "retrieve_samples_and_labels_for_compound" -> {"attribute", "lab", "sample"}
      [] o = "retrieve_samples_by_chebiid"              -> {"attribute", "b", "sample"}
      [] o = "retrieve_samples_by_chebiid_and_molar"    -> {"subunit", "molarity", "compound", "sample"}
      [] o = "retrieve_samples_by_chebiid_and_celline"  -> {"compound", "subline", "cellline", "sample"}
      [] o = "retrieve_samples_by_chebiid_and_strain"   -> {"compound", "strain", "sample"}

\* the fields each operation reads from a row, in the order it stores them
ReadFields(o) ==
    CASE o = "retrieve_compound_labels"                 -> <<"compound">>
      [] o = "retrieve_samples_and_labels_for_compound" -> <<"lab", "sample">>
      [] o = "retrieve_samples_by_chebiid"              -> <<"sample", "attribute">>
      [] o = "retrieve_samples_by_chebiid_and_molar"    -> <<"sample", "compound">>
      [] o = "retrieve_samples_by_chebiid_and_celline"  -> <<"sample", "cellline">>
      [] o = "retrieve_samples_by_chebiid_and_strain"   -> <<"sample", "cellline">>

----------------------------------------------------------------------------
(* The endpoint (external): per search term a fixed sequence of rows; a    *)
(* query with LIMIT l and OFFSET o is answered with rows o+1 .. o+l of it. *)
(* A row binds the selected variables the pattern binds; a selected        *)
(* variable the pattern leaves unbound is absent from the row.             *)

\* the labels the compound endpoint serves, as character codes:
\* "Ab", "ab", "AB", "b", "B2"
LabelPool == << <<65, 98>>, <<97, 98>>, <<65, 66>>, <<98>>, <<66, 50>> >>

\* the value of variable v in the k-th row of a result
Value(o, v, k) ==
    IF o = Resolver THEN LabelPool[((k - 1) % Len(LabelPool)) + 1]
    ELSE IF v = "sample" THEN k
    ELSE 1000 + k

\* the k-th row of the result of operation o's query
Row(o, k) ==
    [v \in SelectVars(o) \cap WhereVars(o) |-> [value |-> Value(o, v, k)]]

\* a result of n rows
Rows(o, n) == [k \in 1..n |-> Row(o, k)]

\* the page of a query: results['results']['bindings']
Endpoint(db, q) ==
    LET all == db[q.term]
    IN  SubSeq(all, q.offset + 1, Min(q.offset + q.limit, Len(all)))

\* an endpoint that ignores OFFSET: every query gets the first page
EndpointIgnoringOffset(db, q) ==
    LET all == db[q.term]
    IN  SubSeq(all, 1, Min(q.limit, Len(all)))

\* the ways the endpoint treats OFFSET
Modes == {"slice", "ignore"}

\* the search terms of the single-term operations
chemblid == "CHEMBL121"

\* chebiid.replace(':', '_') of 'CHEBI:50122'
chebiid == "CHEBI_50122"

\* the names the aggregator is called with
Names == {"aspirin", "asa"}

\* the row counts the sample endpoint holds for a name of the aggregator
AggCounts == {0, 1, limit, MaxRows}

----------------------------------------------------------------------------
(* One call of a retrieval operation.                                      *)
(* pc: "start" -> ("for" ->) "loop" -> "await" -> "loop" | "for" | "done", *)
(* or "failed" when an exception leaves the function.                      *)

\* the search term substituted into the query text
Term == IF op = Aggregator THEN compound
        ELSE IF op = Resolver THEN chemblid
        ELSE chebiid

\* query.substitute(..., limit = limit, offset = offset)
Query == [term |-> Term, limit |-> limit, offset |-> offset]

\* i[f] raises KeyError when the row has no field f
KeyError(o, row) == \E i \in DOMAIN ReadFields(o) : ReadFields(o)[i] \notin DOMAIN row

\* what the loop body appends for one row
Project(o, row) ==
    IF o = Resolver THEN row["compound"].value
    ELSE <<row[ReadFields(o)[1]].value, row[ReadFields(o)[2]].value>>

\* the loop body over a whole page
ProjectPage(o, page) == [i \in DOMAIN page |-> Project(o, page[i])]

\* numpy.nditer(compounds) raises ValueError on a zero-sized array
\* ("Iteration of zero-sized operands is not enabled")
NditerFails(cs) == Len(cs) = 0

\* numpy.array([]) is a float64 array, and numpy.char.lower raises TypeError
\* on it ("string operation on non-string array")
CharLowerFails(ns) == Len(ns) = 0

\* mutant: the offset starts one page in
InitialOffset_Step == step

\* `offset = 0` before the loop
InitialOffset == 0

\* mutant: the offset is not reset between names
CycleOffset_Stale(off) == off

\* `offset = 0` at the head of the aggregator's for body; off is the offset
\* the previous name's cycle left
CycleOffset(off) == 0

\* mutant: the offset advances past one row too many
NextOffset_Skip(off) == off + step + 1

\* the offset of the next query after a non-empty page
NextOffset(off) == off + step

\* mutant: a page shorter than the limit ends the loop
LastPage_Short(page) == Len(page) < limit

\* len(results['results']['bindings']) == 0: the page that breaks the loop
LastPage(page) == Len(page) = 0

\* mutant: the failed query is caught and sent again
OnQueryError_Retry == "loop"

\* what an exception raised by sparql.query() does to the call: nothing
\* catches it, it leaves the function
OnQueryError == "failed"

\* mutant: the loop gives up after two pages
WhileCondition_Capped(off) == off < 2 * step

\* `while True`
WhileCondition(off) == TRUE

Fail(e) ==
    /\ pc' = "failed"
    /\ error' = e
    /\ UNCHANGED <<returned, result>>

Return(v) ==
    /\ pc' = "done"
    /\ returned' = TRUE
    /\ result' = v
    /\ UNCHANGED error

\* the assignments before the loop
Start ==
    /\ pc = "start"
    /\ offset' = InitialOffset
    /\ names' = <<>>
    /\ samples' = <<>>
    /\ results_dict' = EmptyDict
    /\ IF op = Aggregator
       THEN IF NditerFails(compounds)
            THEN Fail("ValueError") /\ UNCHANGED it
            ELSE /\ pc' = "for"
                 /\ it' = 1
                 /\ UNCHANGED <<returned, result, error>>
       ELSE /\ pc' = "loop"
            /\ UNCHANGED <<it, returned, result, error>>
    /\ UNCHANGED <<op, compounds, store, mode, compound, requests>>
    /\ UNCHANGED statVars
    /\ UNCHANGED exportVars

\* mutant: the entry of a name already in the map is kept
FreshEntry_Keep(d, k) == IF k \in Range(d.keys) THEN d ELSE DictPut(d, k, <<>>)

\* results_dict[compound] = []
FreshEntry(d, k) == DictPut(d, k, <<>>)

\* `for compound in numpy.nditer(compounds)`: the next name, or the return
ForCompound ==
    /\ pc = "for"
    /\ IF it > Len(compounds)
       THEN /\ Return(results_dict)
            /\ UNCHANGED <<it, compound, offset, results_dict>>
       ELSE /\ compound' = compounds[it]
            /\ it' = it + 1
            /\ offset' = CycleOffset(offset)
            /\ results_dict' = FreshEntry(results_dict, compounds[it])
            /\ pc' = "loop"
            /\ UNCHANGED <<returned, result, error>>
    /\ UNCHANGED <<op, compounds, store, mode, names, samples, requests>>
    /\ UNCHANGED statVars
    /\ UNCHANGED exportVars

\* what follows the loop: the next name in the aggregator, the return
\* statement elsewhere
AfterLoop ==
    IF op = Aggregator
    THEN pc' = "for" /\ UNCHANGED <<returned, result, error>>
    ELSE IF op = Resolver
    THEN IF CharLowerFails(names)
         THEN Fail("TypeError")
         ELSE Return(UniqueLower(names))
    ELSE Return(samples)

\* the loop head, then sparql.setQuery(...); sparql.query() is sent.
\* Against an endpoint that ignores OFFSET the loop never ends: the model
\* follows it for MaxRequests queries.
SendQuery ==
    /\ pc = "loop"
    /\ mode = "ignore" => Len(requests) < MaxRequests
    /\ IF WhileCondition(offset)
       THEN /\ requests' = Append(requests, Query)
            /\ pc' = "await"
            /\ UNCHANGED <<returned, result, error>>
       ELSE /\ AfterLoop
            /\ UNCHANGED requests
    /\ UNCHANGED <<op, compounds, store, mode, it, compound, offset, names, samples,
                   results_dict>>
    /\ UNCHANGED statVars
    /\ UNCHANGED exportVars

\* sparql.query().convert() raises
QueryFails ==
    /\ pc = "await"
    /\ error' = "endpoint"
    /\ pc' = OnQueryError
    /\ UNCHANGED <<returned, result>>
    /\ UNCHANGED <<op, compounds, store, mode, it, compound, offset, names, samples,
                   results_dict, requests>>
    /\ UNCHANGED statVars
    /\ UNCHANGED exportVars

\* the page the endpoint answers query q with
PageOf(q) ==
    IF mode = "ignore" THEN EndpointIgnoringOffset(store, q) ELSE Endpoint(store, q)

\* the page the endpoint answers the last query with
Page == PageOf(requests[Len(requests)])

\* len(bindings) == 0: break, and what follows the loop
ReceiveEmptyPage ==
    /\ pc = "await"
    /\ LastPage(Page)
    /\ AfterLoop
    /\ UNCHANGED <<op, compounds, store, mode, it, compound, offset, names, samples,
                   results_dict, requests>>
    /\ UNCHANGED statVars
    /\ UNCHANGED exportVars

\* len(bindings) > 0: the rows are appended and the offset advances
ReceivePage ==
    /\ pc = "await"
    /\ ~LastPage(Page)
    /\ IF \E i \in DOMAIN Page : KeyError(op, Page[i])
       THEN /\ Fail("KeyError")
            /\ UNCHANGED <<offset, names, samples, results_dict>>
       ELSE /\ IF op = Resolver
               THEN /\ names' = names \o ProjectPage(op, Page)
                    /\ UNCHANGED <<samples, results_dict>>
               ELSE IF op = Aggregator
               THEN /\ results_dict' = DictPut(results_dict, compound,
                           DictGet(results_dict, compound) \o ProjectPage(op, Page))
                    /\ UNCHANGED <<names, samples>>
               ELSE /\ samples' = samples \o ProjectPage(op, Page)
                    /\ UNCHANGED <<names, results_dict>>
            /\ offset' = NextOffset(offset)
            /\ pc' = "loop"
            /\ UNCHANGED <<returned, result, error>>
    /\ UNCHANGED <<op, compounds, store, mode, it, compound, requests>>
    /\ UNCHANGED statVars
    /\ UNCHANGED exportVars

\* the state at the call of a retrieval, against an endpoint of one of
\* the given modes
InitCall(modes) ==
    /\ op \in Ops
    /\ mode \in modes
    /\ IF op = Aggregator
       THEN /\ compounds \in SeqsUpTo(Names, MaxCompounds)
            /\ store \in [Names -> {Rows(op, n) : n \in AggCounts}]
       ELSE /\ compounds = <<>>
            /\ \E n \in 0..MaxRows :
                   store = [t \in {IF op = Resolver THEN chemblid ELSE chebiid}
                               |-> Rows(op, n)]
    /\ pc = "start"
    /\ it = 0
    /\ compound = ""
    /\ offset = 0
    /\ names = <<>>
    /\ samples = <<>>
    /\ results_dict = EmptyDict
    /\ requests = <<>>
    /\ returned = FALSE
    /\ result = <<>>
    /\ error = "none"
    /\ samplesandlabels = EmptyDict
    /\ call = "none"
    /\ table = <<>>
    /\ retNone = FALSE
    /\ header = NoHeader
    /\ data = <<>>
    /\ file = <<>>

Init == InitCall({"slice"})

Next ==
    \/ Start
    \/ ForCompound
    \/ SendQuery
    \/ QueryFails
    \/ ReceiveEmptyPage
    \/ ReceivePage

Spec == Init /\ [][Next]_vars

\* the same call against either kind of endpoint; the program is one
\* thread that runs on whenever it can, and a query sent is answered or
\* fails
InitLive == InitCall(Modes)

SpecLive == InitLive /\ [][Next]_vars /\ WF_vars(Next)

----------------------------------------------------------------------------
(* Claims about the pagination loops (specification Spec).                 *)

\* the number of rows the endpoint holds for search term t
Total(t) == Len(store[t])

\* the search term of a single-term operation
SingleTerm == IF op = Resolver THEN chemblid ELSE chebiid

\* the loop of the call has been left through its break
LoopLeft == pc = "done" \/ error = "TypeError"

\* the number of entries of sequence s equal to x
RECURSIVE Count(_, _)
Count(s, x) ==
    IF Len(s) = 0 THEN 0
    ELSE Count(SubSeq(s, 1, Len(s) - 1), x) + (IF s[Len(s)] = x THEN 1 ELSE 0)

\* C1: against an endpoint that serves LIMIT/OFFSET slices of a fixed
\* sequence of N rows, a pagination loop returns exactly the N rows, each
\* once, in the endpoint's order: retrieve_samples_by_chebiid returns the
\* (sample, attribute) pair of row k at position k, the other sample
\* retrievals the pair of their two fields, the resolver's loop leaves the
\* compound value of row k at names[k], and the aggregator's entry of a
\* name holds the (lab, sample) pair of row k of that name at position k.
C1_AllRowsOnceInOrder ==
    /\ (op = "retrieve_samples_by_chebiid" /\ returned) =>
          /\ Len(result) = Total(chebiid)
          /\ \A k \in 1..Total(chebiid) :
                result[k] = <<store[chebiid][k]["sample"].value,
                              store[chebiid][k]["attribute"].value>>
    /\ (op \in SampleOps /\ returned) =>
          /\ Len(result) = Total(chebiid)
          /\ \A k \in 1..Total(chebiid) :
                result[k] = <<store[chebiid][k][ReadFields(op)[1]].value,
                              store[chebiid][k][ReadFields(op)[2]].value>>
    /\ (op = Resolver /\ LoopLeft) =>
          /\ Len(names) = Total(chemblid)
          /\ \A k \in 1..Total(chemblid) :
                names[k] = store[chemblid][k]["compound"].value
    /\ (op = Aggregator /\ returned) =>
          \A n \in Range(compounds) :
              /\ Len(result.val[n]) = Total(n)
              /\ \A k \in 1..Total(n) :
                    result.val[n][k] = <<store[n][k]["lab"].value,
                                         store[n][k]["sample"].value>>

\* C1 witness: retrieve_samples_by_chebiid has returned a result of more
\* than two full pages
C1_Witness ==
    /\ op = "retrieve_samples_by_chebiid"
    /\ returned
    /\ Len(result) > 2 * limit

\* the number of queries one pagination cycle over n rows sends
CycleRequests(n) == CeilDiv(n, limit) + 1

\* the number of queries the aggregator sends for the names cs[1..k]
RECURSIVE AggRequests(_, _)
AggRequests(cs, k) ==
    IF k = 0 THEN 0 ELSE AggRequests(cs, k - 1) + CycleRequests(Total(cs[k]))

\* C2 as stated: a loop over N rows with page size P has sent
\* ceil((N+1)/P) queries when it is left
C2_Original ==
    (op # Aggregator /\ LoopLeft) =>
        Len(requests) = CeilDiv(Total(SingleTerm) + 1, limit)

\* C2 amended: a loop over N rows with page size P has sent ceil(N/P) + 1
\* queries when it is left (one per non-empty page and one for the empty
\* page that ends it); the aggregator has sent the sum of that over its
\* input names when it returns
C2_RequestCount ==
    /\ (op # Aggregator /\ LoopLeft) =>
          Len(requests) = CeilDiv(Total(SingleTerm), limit) + 1
    /\ (op = Aggregator /\ returned) =>
          Len(requests) = AggRequests(compounds, Len(compounds))

\* C2 witness: a loop was left after a last page that was not full
C2_Witness ==
    /\ op = "retrieve_samples_by_chebiid"
    /\ returned
    /\ Total(chebiid) = limit + 1
    /\ Len(requests) = 3

\* C3: when the first page of a pagination cycle is empty, the cycle sends
\* exactly one query, at offset 0, and accumulates nothing: the loop head
\* is never reached again after that query
C3_EmptyFirstPage ==
    /\ (op # Aggregator /\ Total(SingleTerm) = 0) =>
          /\ Len(requests) <= 1
          /\ \A i \in DOMAIN requests : requests[i].offset = 0
          /\ pc = "loop" => Len(requests) = 0
          /\ pc \in {"await", "done", "failed"} => Len(requests) = 1
          /\ names = <<>> /\ samples = <<>>
          /\ (op \in SampleOps /\ returned) => result = <<>>
    /\ op = Aggregator =>
          \A n \in Names : Total(n) = 0 =>
              /\ \A i \in DOMAIN requests :
                    requests[i].term = n => requests[i].offset = 0
              /\ Count([i \in DOMAIN requests |-> requests[i].term], n)
                    <= Count(SubSeq(compounds, 1, it - 1), n)
              /\ n \in Range(results_dict.keys) => results_dict.val[n] = <<>>
              /\ pc \in {"for", "done"} =>
                    Count([i \in DOMAIN requests |-> requests[i].term], n)
                        = Count(SubSeq(compounds, 1, it - 1), n)

\* C3 witness: the aggregator has returned after a cycle whose first page
\* was empty, and a single-term retrieval has returned after one query
C3_Witness ==
    \/ /\ op = Aggregator
       /\ returned
       /\ \E n \in Range(compounds) : Total(n) = 0
    \/ /\ op = "retrieve_samples_by_chebiid"
       /\ returned
       /\ Len(requests) = 1
       /\ result = <<>>

\* C4 as stated: when the aggregator returns, the Sample Map has exactly
\* one entry per input name and no other key, and this covers the empty
\* input: called with no names it returns (the empty map) and raises nothing
C4_OneEntryPerName ==
    op = Aggregator =>
        /\ returned =>
              /\ Range(result.keys) = Range(compounds)
              /\ DOMAIN result.val = Range(compounds)
              /\ \A i, j \in DOMAIN result.keys :
                    result.keys[i] = result.keys[j] => i = j
        /\ Len(compounds) = 0 => error = "none"

\* the queries of one full pagination cycle for name n, in order
ExpectedCycle(n) ==
    [i \in 1..CycleRequests(Total(n)) |->
        [term |-> n, limit |-> limit, offset |-> (i - 1) * step]]

\* the queries of the full cycles of cs[1..k], one cycle after the other
RECURSIVE ExpectedTrace(_, _)
ExpectedTrace(cs, k) ==
    IF k = 0 THEN <<>> ELSE ExpectedTrace(cs, k - 1) \o ExpectedCycle(cs[k])

IsPrefix(s, t) == Len(s) <= Len(t) /\ SubSeq(t, 1, Len(s)) = s

\* C5: the aggregator processes the names in input order, one full
\* pagination cycle per input name: the queries sent so far are a prefix of
\* the full cycle of the first name (offsets 0, 50, ... up to the query
\* answered with the empty page), followed by the full cycle of the second
\* name, and so on; the cycle under way is that of the name the iterator
\* last produced; and when the input names are distinct, the queries of
\* one name are contiguous in the trace
C5_SequentialCycles ==
    op = Aggregator =>
        /\ IsPrefix(requests, ExpectedTrace(compounds, Len(compounds)))
        /\ returned => requests = ExpectedTrace(compounds, Len(compounds))
        /\ pc = "for" => Len(requests) = AggRequests(compounds, it - 1)
        /\ pc \in {"loop", "await"} =>
              /\ Len(requests) >= AggRequests(compounds, it - 2)
              /\ Len(requests) <= AggRequests(compounds, it - 1)
              /\ pc = "loop" => Len(requests) < AggRequests(compounds, it - 1)
        /\ (\A i, j \in DOMAIN compounds : compounds[i] = compounds[j] => i = j) =>
              \A i, j, k \in DOMAIN requests :
                  (i < j /\ j < k /\ requests[i].term = requests[k].term)
                      => requests[j].term = requests[i].term

\* C5 witness: the aggregator has returned after paginated cycles of two
\* different names
C5_Witness ==
    /\ op = Aggregator
    /\ returned
    /\ Len(compounds) = 2
    /\ compounds[1] # compounds[2]
    /\ Total(compounds[1]) > limit
    /\ Total(compounds[2]) > 0

\* C6: a failure of the endpoint ends the call in failure, with nothing
\* returned, and no query is sent after it (no retry of the offset, no next
\* offset, no next name)
C6_FailurePropagates ==
    [][/\ error' = "endpoint" => (pc' = "failed" /\ ~returned')
       /\ error = "endpoint" => (requests' = requests /\ pc' = "failed")]_vars

\* C6 witness: the aggregator has failed on a later query of its first
\* name, with rows accumulated and a name still to be queried
C6_Witness ==
    /\ op = Aggregator
    /\ error = "endpoint"
    /\ pc = "failed"
    /\ ~returned
    /\ Len(requests) >= 2
    /\ it <= Len(compounds)
    /\ Len(results_dict.val[compound]) > 0

----------------------------------------------------------------------------
(* The statistics over a Sample Map (specification SpecStats).  A Sample   *)
(* Map is a dict from a name to a list of [label, sample] pairs; Python's  *)
(* x[0] and x[1] are x[1] and x[2] here.                                   *)

\* the labels and sample identifiers of the Sample Maps the statistics see
StatLabels == {1001, 1002}

StatSamples == {1, 2}

StatPairs == {<<l, sm>> : l \in StatLabels, sm \in StatSamples}

\* the key orders of a dict over Names
KeyOrders == {ks \in SeqsUpTo(Names, Cardinality(Names)) :
                 \A i, j \in DOMAIN ks : ks[i] = ks[j] => i = j}

\* the dicts with at most MaxLen pairs per name
SampleMaps ==
    UNION {{[keys |-> ks, val |-> f] :
               f \in [Range(ks) -> SeqsUpTo(StatPairs, MaxLen)]} : ks \in KeyOrders}

\* mutant: the unique sample ids are counted instead of the entries
EntryCount_Unique(entries) == Cardinality({entries[i][2] : i \in DOMAIN entries})

\* len(samplesandlabels[compound])
EntryCount(entries) == Len(entries)

\* the loop of no_of_samples over the first k keys
RECURSIVE CountRows(_, _)
CountRows(d, k) ==
    IF k = 0 THEN <<>>
    ELSE Append(CountRows(d, k - 1), <<d.keys[k], EntryCount(DictGet(d, d.keys[k]))>>)

no_of_samples(d) ==
    << <<"Compound name", "No of samples">> >> \o CountRows(d, Len(d.keys))

\* mutant: the labels are taken instead of the sample ids
SampleIds_Label(entries) == [i \in DOMAIN entries |-> entries[i][1]]

\* [x[1] for x in samplesandlabels[compound]]
SampleIds(entries) == [i \in DOMAIN entries |-> entries[i][2]]

\* mutant: the samples of the first name missing from the second are counted
Overlap_Difference(samples1, samples2) ==
    Cardinality(Range(samples1) \ Range(samples2))

\* mutant: the union is taken
Overlap_Union(samples1, samples2) ==
    Cardinality(Range(samples1) \cup Range(samples2))

\* len(set(samples1).intersection(samples2))
Overlap(samples1, samples2) ==
    Cardinality(Range(samples1) \cap Range(samples2))

\* the value appended to compoundrow for compound2
Cell(d, compound1, compound2) ==
    IF Len(DictGet(d, compound1)) = 0 \/ Len(DictGet(d, compound2)) = 0
    THEN 0
    ELSE Overlap(SampleIds(DictGet(d, compound1)), SampleIds(DictGet(d, compound2)))

\* the inner loop of check_duplicity_of_samples over the first k keys
RECURSIVE CompoundRow(_, _, _)
CompoundRow(d, compound1, k) ==
    IF k = 0 THEN <<compound1>>
    ELSE Append(CompoundRow(d, compound1, k - 1), Cell(d, compound1, d.keys[k]))

\* the outer loop over the first k keys
RECURSIVE CompoundRows(_, _)
CompoundRows(d, k) ==
    IF k = 0 THEN <<>>
    ELSE Append(CompoundRows(d, k - 1), CompoundRow(d, d.keys[k], Len(d.keys)))

check_duplicity_of_samples(d) ==
    << <<"Compound Name">> \o d.keys >> \o CompoundRows(d, Len(d.keys))

\* the inner loop of samples_associated_with_molarity: sample[1] of every
\* entry of one name
RECURSIVE AppendSamples(_, _, _)
AppendSamples(acc, allsamples, k) ==
    IF k = 0 THEN acc
    ELSE Append(AppendSamples(acc, allsamples, k - 1), allsamples[k][2])

\* the outer loop over the first k keys: the local list `samples`
RECURSIVE MolaritySamples(_, _)
MolaritySamples(d, k) ==
    IF k = 0 THEN <<>>
    ELSE AppendSamples(MolaritySamples(d, k - 1), DictGet(d, d.keys[k]),
                       Len(DictGet(d, d.keys[k])))

\* samples_associated_with_molarity builds `samples` and ends without a
\* return statement: the call evaluates to None
SamplesAssociatedWithMolarity ==
    /\ call = "none"
    /\ call' = "samples_associated_with_molarity"
    /\ samples' = MolaritySamples(samplesandlabels, Len(samplesandlabels.keys))
    /\ table' = <<>>
    /\ retNone' = TRUE
    /\ UNCHANGED samplesandlabels
    /\ UNCHANGED <<op, compounds, store, mode, pc, it, compound, offset, names,
                   results_dict, requests, returned, result, error>>
    /\ UNCHANGED exportVars

NoOfSamples ==
    /\ call = "none"
    /\ call' = "no_of_samples"
    /\ table' = no_of_samples(samplesandlabels)
    /\ retNone' = FALSE
    /\ UNCHANGED samplesandlabels
    /\ UNCHANGED fetchVars
    /\ UNCHANGED exportVars

CheckDuplicityOfSamples ==
    /\ call = "none"
    /\ call' = "check_duplicity_of_samples"
    /\ table' = check_duplicity_of_samples(samplesandlabels)
    /\ retNone' = FALSE
    /\ UNCHANGED samplesandlabels
    /\ UNCHANGED fetchVars
    /\ UNCHANGED exportVars

InitStats ==
    /\ samplesandlabels \in SampleMaps
    /\ call = "none"
    /\ table = <<>>
    /\ retNone = FALSE
    /\ header = NoHeader
    /\ data = <<>>
    /\ file = <<>>
    /\ op = "none"
    /\ compounds = <<>>
    /\ store = <<>>
    /\ mode = "slice"
    /\ pc = "idle"
    /\ it = 0
    /\ compound = ""
    /\ offset = 0
    /\ names = <<>>
    /\ samples = <<>>
    /\ results_dict = EmptyDict
    /\ requests = <<>>
    /\ returned = FALSE
    /\ result = <<>>
    /\ error = "none"

NextStats ==
    \/ NoOfSamples
    \/ CheckDuplicityOfSamples
    \/ SamplesAssociatedWithMolarity

SpecStats == InitStats /\ [][NextStats]_vars

----------------------------------------------------------------------------
(* Claims about the statistics (specification SpecStats).                  *)

\* the set of sample ids of name n in the Sample Map
IdSet(n) == {samplesandlabels.val[n][i][2] : i \in DOMAIN samplesandlabels.val[n]}

\* the keys of the Sample Map, in iteration order
Keys == samplesandlabels.keys

\* cell (i, j) of the overlap table: row i + 1 (after the header), column
\* j + 1 (after the name)
TableCell(i, j) == table[i + 1][j + 1]

\* the overlap table has the shape of a header and a square matrix
Square ==
    /\ Len(table) = Len(Keys) + 1
    /\ \A i \in 1..Len(table) : Len(table[i]) = Len(Keys) + 1

\* C7: every cell (i, j) of the overlap table is the size of the
\* intersection of the sample-id sets of names i and j, also when one of
\* the two lists is empty (the explicit 0 is the size of the intersection)
C7_CellIsIntersectionSize ==
    call = "check_duplicity_of_samples" =>
        /\ Square
        /\ \A i, j \in DOMAIN Keys :
              TableCell(i, j) = Cardinality(IdSet(Keys[i]) \cap IdSet(Keys[j]))

\* C7 witness: a table over an empty list and a list of two different
\* sample ids: the cells with the empty list are 0, the other one is 2
C7_Witness ==
    /\ call = "check_duplicity_of_samples"
    /\ Len(Keys) = 2
    /\ Len(samplesandlabels.val[Keys[1]]) = 0
    /\ Cardinality(IdSet(Keys[2])) = 2
    /\ TableCell(1, 1) = 0
    /\ TableCell(1, 2) = 0
    /\ TableCell(2, 1) = 0
    /\ TableCell(2, 2) = 2

\* C8: the overlap table is symmetric
C8_Symmetric ==
    call = "check_duplicity_of_samples" =>
        /\ Square
        /\ \A i, j \in DOMAIN Keys : TableCell(i, j) = TableCell(j, i)

\* C8 witness: a table over two names with different id sets, one list
\* repeating a sample id, and a non-zero cell off the diagonal
C8_Witness ==
    /\ call = "check_duplicity_of_samples"
    /\ Len(Keys) = 2
    /\ IdSet(Keys[1]) # IdSet(Keys[2])
    /\ Len(samplesandlabels.val[Keys[1]]) > Cardinality(IdSet(Keys[1]))
    /\ TableCell(1, 2) = 1

\* C9: a cell between names with disjoint sample-id sets is 0, and the
\* diagonal cell of a name is its number of unique sample ids, which is
\* less than the entry count no_of_samples reports for the name when the
\* name's list repeats a sample id
C9_DisjointAndDiagonal ==
    call = "check_duplicity_of_samples" =>
        /\ Square
        /\ \A i, j \in DOMAIN Keys :
              IdSet(Keys[i]) \cap IdSet(Keys[j]) = {} => TableCell(i, j) = 0
        /\ \A i \in DOMAIN Keys :
              /\ TableCell(i, i) = Cardinality(IdSet(Keys[i]))
              /\ no_of_samples(samplesandlabels)[i + 1][1] = Keys[i]
              /\ TableCell(i, i) <= no_of_samples(samplesandlabels)[i + 1][2]
              /\ (\E a, b \in DOMAIN samplesandlabels.val[Keys[i]] :
                      a # b /\ samplesandlabels.val[Keys[i]][a][2]
                                   = samplesandlabels.val[Keys[i]][b][2])
                    => TableCell(i, i) < no_of_samples(samplesandlabels)[i + 1][2]

\* C9 witness: two non-empty disjoint names, one of which repeats its id
C9_Witness ==
    /\ call = "check_duplicity_of_samples"
    /\ Len(Keys) = 2
    /\ IdSet(Keys[1]) # {} /\ IdSet(Keys[2]) # {}
    /\ IdSet(Keys[1]) \cap IdSet(Keys[2]) = {}
    /\ Len(samplesandlabels.val[Keys[1]]) = 2
    /\ TableCell(1, 1) = 1

\* C10: no_of_samples returns the header ["Compound name", "No of samples"]
\* followed by one row per entry of the Sample Map, in the map's order,
\* pairing the name with the number of entries of its list
C10_CountTable ==
    call = "no_of_samples" =>
        /\ Len(table) = Len(Keys) + 1
        /\ table[1] = <<"Compound name", "No of samples">>
        /\ \A i \in DOMAIN Keys :
              /\ Len(table[i + 1]) = 2
              /\ table[i + 1][1] = Keys[i]
              /\ table[i + 1][2] = Len(samplesandlabels.val[Keys[i]])

\* C10 witness: a count table over an empty list and a list that repeats a
\* sample id
C10_Witness ==
    /\ call = "no_of_samples"
    /\ Len(Keys) = 2
    /\ table[2][2] = 0
    /\ table[3][2] = 2
    /\ Cardinality(IdSet(Keys[2])) = 1

----------------------------------------------------------------------------
(* Claims about the resolver's output (specification Spec).                *)

\* C11: the array retrieve_compound_labels returns has no two entries that
\* are equal case-insensitively, is unchanged by lowercasing it again, and
\* holds exactly the lowercased 'compound' values of all rows of all
\* non-empty pages
C11_LowercasedSet ==
    (op = Resolver /\ returned) =>
        /\ \A i, j \in DOMAIN result :
              Lower(result[i]) = Lower(result[j]) => i = j
        /\ \A i \in DOMAIN result :
              \A c \in DOMAIN result[i] : ~(result[i][c] >= 65 /\ result[i][c] <= 90)
        /\ [i \in DOMAIN result |-> Lower(result[i])] = result
        /\ Range(result) =
              {Lower(store[chemblid][k]["compound"].value) :
                  k \in 1..Total(chemblid)}

\* C11 witness: labels of more than one page, some repeated and some
\* differing only in case, were returned as fewer entries
C11_Witness ==
    /\ op = Resolver
    /\ returned
    /\ Len(names) > limit
    /\ Len(result) < Cardinality(Range(names))
    /\ \E i \in DOMAIN names : names[i] \notin Range(result)

\* C12 as stated: an empty result is valid: when the first page for the
\* compound is empty, retrieve_compound_labels completes normally (it
\* raises nothing of its own) and what it returns is an empty name set; and
\* the aggregator sends no query for an empty name set and what it returns
\* for it is an empty Sample Map (that the aggregator raises on that input
\* is C4's counterexample)
C12_EmptyResultValid ==
    /\ (op = Resolver /\ Total(chemblid) = 0) =>
          /\ error \in {"none", "endpoint"}
          /\ returned => Len(result) = 0
    /\ (op = Aggregator /\ Len(compounds) = 0) =>
          /\ Len(requests) = 0
          /\ returned => Len(result.keys) = 0

----------------------------------------------------------------------------
(* Claims about termination (specification SpecLive).                      *)

\* the number of rows accumulated for the search term of the cycle under way
AccLen ==
    IF op = Resolver THEN Len(names)
    ELSE IF op = Aggregator
    THEN (IF compound \in Range(results_dict.keys)
          THEN Len(results_dict.val[compound]) ELSE 0)
    ELSE Len(samples)

\* a step that leaves the loop of a pagination cycle normally
LeavesLoop ==
    /\ pc \in {"loop", "await"}
    /\ \/ pc' \in {"done", "for"}
       \/ error # "TypeError" /\ error' = "TypeError"

\* C13: a pagination loop is left only on an empty page; against an
\* endpoint that slices a finite result by OFFSET the call ends; and there
\* is no maximum offset or iteration count: against an endpoint that
\* ignores OFFSET and has rows for the term, every page received adds its
\* rows and a page size to the offset, however many were received before,
\* and the loop is never left normally
C13_TerminatesIffEmptyPage ==
    /\ [][LeavesLoop => (pc = "await" /\ Len(Page) = 0)]_vars
    /\ (mode = "slice") => <>(pc \in {"done", "failed"})
    /\ [][(mode = "ignore" /\ pc = "await" /\ Len(Page) > 0 /\ error' = error)
             => /\ pc' = "loop"
                /\ offset' = offset + step
                /\ AccLen' = AccLen + Len(Page)]_vars
    /\ []((mode = "ignore" /\ op # Aggregator /\ pc \in {"loop", "await"}
              /\ Len(requests) > 0 /\ Total(SingleTerm) > 0)
             => (IF pc = "loop" THEN offset = step * Len(requests)
                                ELSE offset = step * (Len(requests) - 1)))
    /\ []((mode = "ignore" /\ op # Aggregator /\ Total(SingleTerm) > 0)
             => (pc # "done" /\ error # "TypeError"))
    /\ []((mode = "ignore" /\ op = Aggregator /\ it >= 2
              /\ Total(compounds[it - 1]) > 0)
             => pc \notin {"for", "done"})

\* C13 witness: against an endpoint that ignores OFFSET the loop has sent
\* every query the model follows and is at its head again, with an offset
\* and an accumulated sequence beyond the rows the endpoint holds
C13_Witness ==
    /\ mode = "ignore"
    /\ op = "retrieve_samples_by_chebiid_and_molar"
    /\ pc = "loop"
    /\ Len(requests) = MaxRequests
    /\ Total(chebiid) = 1
    /\ offset > Total(chebiid)
    /\ Len(samples) = MaxRequests

----------------------------------------------------------------------------
(* Claims about samples_associated_with_molarity (specification SpecStats). *)

\* the sample ids of the entries of the names Keys[1..k], in map order and
\* then entry order
RECURSIVE FlatIds(_)
FlatIds(k) ==
    IF k = 0 THEN <<>>
    ELSE FlatIds(k - 1) \o
         [i \in DOMAIN samplesandlabels.val[Keys[k]] |->
             samplesandlabels.val[Keys[k]][i][2]]

\* the sum of the entry counts of the names Keys[1..k]
RECURSIVE TotalEntries(_)
TotalEntries(k) ==
    IF k = 0 THEN 0 ELSE TotalEntries(k - 1) + Len(samplesandlabels.val[Keys[k]])

\* C14 as stated: samples_associated_with_molarity returns a list: the
\* sample id of every entry of every name, in map order then entry order,
\* as long as the sum of the entry counts
C14_ReturnsAllSampleIds ==
    call = "samples_associated_with_molarity" =>
        /\ ~retNone
        /\ table = FlatIds(Len(Keys))
        /\ Len(table) = TotalEntries(Len(Keys))

----------------------------------------------------------------------------
(* The exporter (specification SpecExport).  A cell is a string (its       *)
(* character codes) or an integer; the file is a sequence of character     *)
(* codes, written in text mode on a platform whose line separator is "\n"  *)
(* (no translation of the writer's "\r\n").                                *)

StrCell(str) == [t |-> "str", n |-> 0, s |-> str]

IntCell(i) == [t |-> "int", n |-> i, s |-> <<>>]

\* str(i) of a non-negative integer: its decimal digits
RECURSIVE IntToStr(_)
IntToStr(i) ==
    IF i < 10 THEN <<48 + i>> ELSE IntToStr(i \div 10) \o <<48 + (i % 10)>>

\* the text csv.writer writes for one cell before quoting: the string
\* itself, str() of anything else
CellText(c) == IF c.t = "str" THEN c.s ELSE IntToStr(c.n)

\* the characters that make csv.writer quote a field (QUOTE_MINIMAL, excel
\* dialect): the delimiter ',', the quote character, '\r' and '\n'
NeedsQuotes(str) == \E i \in DOMAIN str : str[i] \in {44, 34, 13, 10}

\* a field with its quote characters doubled
RECURSIVE DoubleQuotes(_)
DoubleQuotes(str) ==
    IF Len(str) = 0 THEN <<>>
    ELSE (IF str[1] = 34 THEN <<34, 34>> ELSE <<str[1]>>) \o DoubleQuotes(Tail(str))

\* one field as csv.writer writes it
CsvField(str) ==
    IF NeedsQuotes(str) THEN <<34>> \o DoubleQuotes(str) \o <<34>> ELSE str

\* the fields of a row joined by ','
RECURSIVE JoinFields(_)
JoinFields(row) ==
    IF Len(row) = 0 THEN <<>>
    ELSE IF Len(row) = 1 THEN CsvField(CellText(row[1]))
    ELSE CsvField(CellText(row[1])) \o <<44>> \o JoinFields(Tail(row))

\* csv.writer(f).writerow: the row and the line terminator '\r\n'
CsvLine(row) == JoinFields(row) \o <<13, 10>>

\* csv.writer(f).writerows(output)
RECURSIVE WriteRows(_)
WriteRows(rows) ==
    IF Len(rows) = 0 THEN <<>> ELSE CsvLine(rows[1]) \o WriteRows(Tail(rows))

\* mutant: the header is left out of the output
Output_NoHeader(h, d) == d

\* output = []; if header != None: output.append(header); output.extend(data)
Output(h, d) == IF ~h.none THEN <<h.row>> \o d ELSE d

\* the cells the exported tables are made of: "a", "a,b", 'q"', "7", "",
\* and the integers 7 and 12
ExportCells ==
    {StrCell(<<97>>), StrCell(<<97, 44, 98>>), StrCell(<<113, 34>>),
     StrCell(<<55>>), StrCell(<<>>), IntCell(7), IntCell(12)}

ExportRows == [1..2 -> ExportCells]

\* the headers: None, and the strings "a", "a,b"
ExportHeaders == {NoHeader, SomeHeader(<<StrCell(<<97>>), StrCell(<<97, 44, 98>>)>>)}

\* with open(filename, 'w') as f: csv.writer(f).writerows(output)
Write2Table ==
    /\ call = "none"
    /\ call' = "write2table"
    /\ file' = WriteRows(Output(header, data))
    /\ UNCHANGED <<header, data>>
    /\ UNCHANGED <<samplesandlabels, table, retNone>>
    /\ UNCHANGED fetchVars

\* the file exists with other content before the call ("x\n"), or is empty
InitExport ==
    /\ header \in ExportHeaders
    /\ data \in [1..2 -> ExportRows]
    /\ file \in {<<>>, <<120, 10>>}
    /\ call = "none"
    /\ samplesandlabels = EmptyDict
    /\ table = <<>>
    /\ retNone = FALSE
    /\ op = "none"
    /\ compounds = <<>>
    /\ store = <<>>
    /\ mode = "slice"
    /\ pc = "idle"
    /\ it = 0
    /\ compound = ""
    /\ offset = 0
    /\ names = <<>>
    /\ samples = <<>>
    /\ results_dict = EmptyDict
    /\ requests = <<>>
    /\ returned = FALSE
    /\ result = <<>>
    /\ error = "none"

NextExport == Write2Table

SpecExport == InitExport /\ [][NextExport]_vars

----------------------------------------------------------------------------
(* Claims about the exporter (specification SpecExport).                   *)

\* csv.reader on the characters f from position i on (excel dialect):
\* st is the reader's state, fld the field and row the record under way,
\* rows the records read so far
RECURSIVE ReadFrom(_, _, _, _, _, _)
ReadFrom(f, i, st, fld, row, rows) ==
    IF i > Len(f)
    THEN IF st \in {"start_row", "after_cr"} THEN rows
         ELSE Append(rows, Append(row, fld))
    ELSE LET c == f[i] IN
      CASE st = "after_cr" ->
             IF c = 10 THEN ReadFrom(f, i + 1, "start_row", <<>>, <<>>, rows)
             ELSE ReadFrom(f, i, "start_row", <<>>, <<>>, rows)
        [] st = "start_row" ->
             IF c = 13 THEN ReadFrom(f, i + 1, "after_cr", <<>>, <<>>, Append(rows, <<>>))
             ELSE IF c = 10 THEN ReadFrom(f, i + 1, "start_row", <<>>, <<>>, Append(rows, <<>>))
             ELSE ReadFrom(f, i, "start_field", <<>>, <<>>, rows)
        [] st = "start_field" ->
             IF c = 34 THEN ReadFrom(f, i + 1, "in_quoted", <<>>, row, rows)
             ELSE IF c = 44 THEN ReadFrom(f, i + 1, "start_field", <<>>, Append(row, <<>>), rows)
             ELSE IF c = 13 THEN ReadFrom(f, i + 1, "after_cr", <<>>, <<>>, Append(rows, Append(row, <<>>)))
             ELSE IF c = 10 THEN ReadFrom(f, i + 1, "start_row", <<>>, <<>>, Append(rows, Append(row, <<>>)))
             ELSE ReadFrom(f, i + 1, "in_field", <<c>>, row, rows)
        [] st = "in_field" ->
             IF c = 44 THEN ReadFrom(f, i + 1, "start_field", <<>>, Append(row, fld), rows)
             ELSE IF c = 13 THEN ReadFrom(f, i + 1, "after_cr", <<>>, <<>>, Append(rows, Append(row, fld)))
             ELSE IF c = 10 THEN ReadFrom(f, i + 1, "start_row", <<>>, <<>>, Append(rows, Append(row, fld)))
             ELSE ReadFrom(f, i + 1, "in_field", Append(fld, c), row, rows)
        [] st = "in_quoted" ->
             IF c = 34 THEN ReadFrom(f, i + 1, "quote_in_quoted", fld, row, rows)
             ELSE ReadFrom(f, i + 1, "in_quoted", Append(fld, c), row, rows)
        [] st = "quote_in_quoted" ->
             IF c = 34 THEN ReadFrom(f, i + 1, "in_quoted", Append(fld, 34), row, rows)
             ELSE IF c = 44 THEN ReadFrom(f, i + 1, "start_field", <<>>, Append(row, fld), rows)
             ELSE IF c = 13 THEN ReadFrom(f, i + 1, "after_cr", <<>>, <<>>, Append(rows, Append(row, fld)))
             ELSE IF c = 10 THEN ReadFrom(f, i + 1, "start_row", <<>>, <<>>, Append(rows, Append(row, fld)))
             ELSE ReadFrom(f, i + 1, "in_field", Append(fld, c), row, rows)

\* list(csv.reader(open(filename, newline=''))): rows of strings
ReadCsv(f) == ReadFrom(f, 1, "start_row", <<>>, <<>>, <<>>)

\* the rows read, as rows of string cells
ReadCells(f) ==
    [r \in DOMAIN ReadCsv(f) |->
        [k \in DOMAIN ReadCsv(f)[r] |-> StrCell(ReadCsv(f)[r][k])]]

\* rows with every cell replaced by the string str(cell)
AsText(rows) ==
    [r \in DOMAIN rows |-> [k \in DOMAIN rows[r] |-> StrCell(CellText(rows[r][k]))]]

\* the header, if one was given, followed by the body
Exported == IF header.none THEN data ELSE <<header.row>> \o data

AllStrings(rows) ==
    \A r \in DOMAIN rows : \A k \in DOMAIN rows[r] : rows[r][k].t = "str"

\* C15 as stated: re-reading the file written for a header and a two-row
\* body of string or integer cells yields the original header and rows
C15_Original ==
    call = "write2table" => ReadCells(file) = Exported

\* C15 amended: re-reading the file yields the header (if one was given)
\* and the two body rows, in order, with every cell as the string
\* str(cell): string cells come back as they were (commas and quotes
\* included), integer cells as their decimal digits; with header None the
\* file holds exactly the body rows
C15_RoundTripAsText ==
    call = "write2table" =>
        /\ ReadCells(file) = AsText(Exported)
        /\ AllStrings(Exported) => ReadCells(file) = Exported
        /\ header.none =>
              /\ Len(ReadCsv(file)) = Len(data)
              /\ ReadCells(file) = AsText(data)
        /\ ~header.none =>
              /\ Len(ReadCsv(file)) = Len(data) + 1
              /\ ReadCells(file)[1] = header.row

\* C15 witness: a header and a body holding an integer and a string with a
\* comma were written over a file that had other content
C15_Witness ==
    /\ call = "write2table"
    /\ ~header.none
    /\ data[1] = <<StrCell(<<97, 44, 98>>), IntCell(12)>>
    /\ data[2] = <<StrCell(<<113, 34>>), StrCell(<<>>)>>
    /\ Len(ReadCsv(file)) = 3
    /\ ReadCsv(file)[2] = << <<97, 44, 98>>, <<49, 50>> >>

----------------------------------------------------------------------------
(* Claims about the shape of the request sequence (specification Spec).    *)

\* the page received before the last request was sent
PreviousPage == PageOf(requests[Len(requests) - 1])

\* a non-empty page with fewer rows than the page size
ShortPage(page) == Len(page) > 0 /\ Len(page) < limit

\* C16: a non-empty page with fewer than page-size rows does not end the
\* loop: unless projecting it raises, the loop goes on with the offset one
\* page size further, the next step sends a request at that offset for the
\* same term, and the loop stops only on the empty page that request (or a
\* later one) returns
C16_ShortPageContinues ==
    /\ [][(pc = "await" /\ ShortPage(Page) /\ error' = error)
             => /\ pc' = "loop"
                /\ offset' = offset + step
                /\ AccLen' = AccLen + Len(Page)]_vars
    /\ [][pc = "loop"
             => /\ pc' = "await"
                /\ requests' = Append(requests,
                       [term |-> Term, limit |-> limit, offset |-> offset])]_vars
    /\ []((pc = "await" /\ Len(requests) >= 2 /\ ShortPage(PreviousPage))
             => /\ requests[Len(requests)].term = requests[Len(requests) - 1].term
                /\ requests[Len(requests)].offset
                       = requests[Len(requests) - 1].offset + step
                /\ Len(Page) = 0)
    /\ [][LeavesLoop => ~ShortPage(Page)]_vars

\* C16 witness: after two full pages and a page of one row, the fourth
\* request is awaiting its (empty) page
C16_Witness ==
    /\ pc = "await"
    /\ Len(requests) = 4
    /\ requests[4].offset = 3 * step
    /\ requests[3].term = requests[4].term
    /\ Len(PreviousPage) = 1
    /\ Len(Page) = 0

\* the request that opens the pagination cycle request k belongs to: the
\* first request, or the one sent after a request answered with the empty
\* page
RECURSIVE CycleStart(_)
CycleStart(k) ==
    IF k = 1 \/ Len(PageOf(requests[k - 1])) = 0 THEN k ELSE CycleStart(k - 1)

\* the number of non-empty pages received in its cycle before request k
NonEmptyBefore(k) ==
    Cardinality({j \in CycleStart(k)..(k - 1) : Len(PageOf(requests[j])) > 0})

\* the number of non-empty pages received so far in the cycle under way (a
\* new cycle is under way once the last request got the empty page)
NonEmptySoFar ==
    IF Len(requests) = 0 THEN 0
    ELSE IF pc = "await" THEN NonEmptyBefore(Len(requests))
    ELSE IF Len(Page) = 0 THEN 0
    ELSE NonEmptyBefore(Len(requests)) + 1

\* C17: every request asks for limit 50 at the offset 50 times the number
\* of non-empty pages received so far in its cycle: 0 at the start of a
\* cycle; the loop's offset between requests is that product too; within a
\* cycle the offsets strictly increase, so none is requested twice
C17_OffsetCountsNonEmptyPages ==
    /\ \A k \in DOMAIN requests :
          /\ requests[k].limit = 50
          /\ requests[k].offset = 50 * NonEmptyBefore(k)
          /\ CycleStart(k) = k => requests[k].offset = 0
          /\ \A j \in CycleStart(k)..(k - 1) :
                /\ requests[j].term = requests[k].term
                /\ requests[j].offset < requests[k].offset
    /\ pc = "loop" => offset = 50 * NonEmptySoFar

\* C17 witness: the aggregator is in its second cycle, after a first cycle
\* of more than two pages, and has sent the request at offset 100 again
C17_Witness ==
    /\ op = Aggregator
    /\ pc = "await"
    /\ Len(requests) >= 7
    /\ CycleStart(Len(requests)) = 5
    /\ requests[3].offset = 100
    /\ requests[Len(requests)].offset = 100

\* the (limit, offset) pairs of a sequence of requests
LimitOffset(reqs) == [i \in DOMAIN reqs |-> <<reqs[i].limit, reqs[i].offset>>]

\* the (limit, offset) pairs of the pagination protocol over a result of n
\* rows: one request per non-empty page, one for the empty page
ProtocolTrace(n) == [i \in 1..CycleRequests(n) |-> <<limit, (i - 1) * step>>]

\* the protocol's pairs for the names cs[1..k], cycle after cycle
RECURSIVE ProtocolTraces(_, _)
ProtocolTraces(cs, k) ==
    IF k = 0 THEN <<>> ELSE ProtocolTraces(cs, k - 1) \o ProtocolTrace(Total(cs[k]))

\* the call has ended and the endpoint did not fail
Ended == pc \in {"done", "failed"} /\ error # "endpoint"

\* C18 as stated: the six retrievals implement one pagination protocol:
\* over a result of N rows each of them sends the requests of
\* ProtocolTrace(N), which depend on the pages only, and has accumulated N
\* rows when its loop is over (the aggregator: per name)
C18_SameProtocol ==
    /\ op # Aggregator =>
          /\ IsPrefix(LimitOffset(requests), ProtocolTrace(Total(SingleTerm)))
          /\ Ended =>
                /\ LimitOffset(requests) = ProtocolTrace(Total(SingleTerm))
                /\ AccLen = Total(SingleTerm)
    /\ op = Aggregator =>
          /\ IsPrefix(LimitOffset(requests),
                      ProtocolTraces(compounds, Len(compounds)))
          /\ Ended =>
                /\ LimitOffset(requests) = ProtocolTraces(compounds, Len(compounds))
                /\ \A i \in DOMAIN compounds :
                      Len(DictGet(results_dict, compounds[i])) = Total(compounds[i])

\* C19 as stated: every field an operation reads from a row is bound by its
\* WHERE pattern, so no row of a non-empty page lacks a field that is read,
\* no call fails with KeyError, and a sample retrieval returns one tuple
\* per row of the result
C19_ReadFieldsAreBound ==
    /\ (pc = "await" /\ Len(Page) > 0) =>
          \A i \in DOMAIN Page : \A k \in DOMAIN ReadFields(op) :
              /\ ReadFields(op)[k] \in WhereVars(op)
              /\ ReadFields(op)[k] \in DOMAIN Page[i]
    /\ error # "KeyError"
    /\ (Ended /\ op \in SampleOps) =>
          (returned /\ Len(result) = Total(chebiid))

\* C20: in the aggregator a step changes the entry of no name but the one
\* whose cycle is under way, so the entry of a finished name is untouched
\* by the cycles of other names; and every finished name's entry holds the
\* rows of exactly one full cycle, also when the input repeats the name
\* (the entry is reset and refilled, not extended)
C20_EntriesFramed ==
    /\ [][op = Aggregator =>
             \A n \in Range(results_dict.keys) :
                 n # compound' =>
                     /\ n \in Range(results_dict'.keys)
                     /\ DictGet(results_dict', n) = DictGet(results_dict, n)]_vars
    /\ []((op = Aggregator /\ pc = "for") =>
             \A i \in 1..(it - 1) :
                 /\ compounds[i] \in Range(results_dict.keys)
                 /\ DictGet(results_dict, compounds[i])
                        = ProjectPage(op, store[compounds[i]]))
    /\ []((op = Aggregator /\ returned) =>
             \A i \in DOMAIN compounds :
                 Len(DictGet(result, compounds[i])) = Total(compounds[i]))

\* C20 witness: the aggregator has returned for an input that names the
\* same compound twice, with more than one page of rows, and the entry
\* holds the rows once
C20_Witness ==
    /\ op = Aggregator
    /\ returned
    /\ Len(compounds) = 2
    /\ compounds[1] = compounds[2]
    /\ Total(compounds[1]) > limit
    /\ Len(requests) = 2 * CycleRequests(Total(compounds[1]))
    /\ Len(result.keys) = 1
    /\ Len(DictGet(result, compounds[1])) = Total(compounds[1])

====
